---- MODULE Spec2Model ----
(***************************************************************************)
(* Model of kiro_interactive.py: the PTY-based interactive runner          *)
(* (run_kiro_interactive), its Telegram helpers (_send_telegram,           *)
(* _poll_telegram_reply) and its text helpers (_strip_ansi,                *)
(* _looks_like_prompt); of the outer loop of telegram_bot.py (main); and   *)
(* of the event handler of folder_monitor.py (_OutputFolderHandler).       *)
(*                                                                         *)
(* Text is a sequence of characters; a character is a one-character string *)
(* (the escape character 0x1b is written ESC).                             *)
(* Time is measured in ticks of half a second (SILENCE_THRESHOLD is one    *)
(* tick), so every duration of the source given in seconds is doubled.     *)
(***************************************************************************)
EXTENDS Integers, Sequences, FiniteSets, TLC

\* ------------------------------------------------------------------------
\* Bounds of the model (not program constants)
\* ------------------------------------------------------------------------

\* longest text drawn exhaustively for the classifier
MaxLen == 3
\* a child writes at most this many chunks
MaxEmit == 3
\* the channel holds at most this many updates
MaxUpd == 2
\* getUpdates fails at most this many times in one wait
MaxPollErrors == 1
\* the channel is eventful (messages arrive, requests fail) during the first
\* long polls of a wait, at most this many; after them it stays quiet
\* (a later event meets the same code with a later clock)
MaxBusyTurns == 1
\* the bot's channel receives at most this many updates
MaxPosts == 3
\* the watched folder raises at most this many events
MaxEvents == 3

\* ------------------------------------------------------------------------
\* Characters
\* ------------------------------------------------------------------------

ESC == "ESC"
NL == "\n"
CR == "\r"

Whitespace == {" ", "\t", NL, CR}

UpperCase == <<"A","B","C","D","E","F","G","H","I","J","K","L","M",
               "N","O","P","Q","R","S","T","U","V","W","X","Y","Z">>

LowerCase == <<"a","b","c","d","e","f","g","h","i","j","k","l","m",
               "n","o","p","q","r","s","t","u","v","w","x","y","z">>

Letters == {UpperCase[i] : i \in 1..26} \cup {LowerCase[i] : i \in 1..26}

\* re.IGNORECASE: characters are compared after case folding
Lower(c) ==
    IF \E i \in 1..26 : UpperCase[i] = c
    THEN LowerCase[CHOOSE i \in 1..26 : UpperCase[i] = c]
    ELSE c

IsSpace(c) == c \in Whitespace

\* ------------------------------------------------------------------------
\* String helpers of Python used by the source
\* ------------------------------------------------------------------------

\* s.strip() == '' ("not clean.strip()", "if l.strip()")
IsBlank(s) == \A i \in 1..Len(s) : IsSpace(s[i])

RECURSIVE LStrip(_)
LStrip(s) ==
    IF s # <<>> /\ IsSpace(Head(s)) THEN LStrip(Tail(s)) ELSE s

RECURSIVE RStrip(_)
RStrip(s) ==
    IF s # <<>> /\ IsSpace(s[Len(s)]) THEN RStrip(SubSeq(s, 1, Len(s) - 1)) ELSE s

\* s.strip()
Strip(s) == LStrip(RStrip(s))

\* s.rstrip('\r')
RECURSIVE RStripCR(_)
RStripCR(s) ==
    IF s # <<>> /\ s[Len(s)] = CR THEN RStripCR(SubSeq(s, 1, Len(s) - 1)) ELSE s

\* s.endswith('\n')
EndsWithNL(s) == s # <<>> /\ s[Len(s)] = NL

\* s.split('\n'): the pieces between newlines, empty pieces kept
RECURSIVE SplitNL(_, _)
SplitNL(s, cur) ==
    IF s = <<>> THEN <<cur>>
    ELSE IF Head(s) = NL THEN <<cur>> \o SplitNL(Tail(s), <<>>)
    ELSE SplitNL(Tail(s), Append(cur, Head(s)))

\* ------------------------------------------------------------------------
\* _ANSI_RE and _strip_ansi
\* ------------------------------------------------------------------------

AnsiParam == {"0","1","2","3","4","5","6","7","8","9",";"}

\* [mGKHFJA-Za-z]
AnsiFinal == Letters

\* first index >= i whose character is not a parameter character
RECURSIVE SkipParams(_, _)
SkipParams(s, i) ==
    IF i <= Len(s) /\ s[i] \in AnsiParam THEN SkipParams(s, i + 1) ELSE i

\* index of the last character of a match of _ANSI_RE starting at i, or 0
AnsiEnd(s, i) ==
    IF i + 1 <= Len(s) /\ s[i] = ESC /\ s[i + 1] = "["
    THEN LET j == SkipParams(s, i + 2)
         IN  IF j <= Len(s) /\ s[j] \in AnsiFinal THEN j ELSE 0
    ELSE 0

\* re.sub: leftmost non-overlapping matches are removed, the result is not rescanned
RECURSIVE StripFrom(_, _)
StripFrom(s, i) ==
    IF i > Len(s) THEN <<>>
    ELSE LET e == AnsiEnd(s, i)
         IN  IF e > 0 THEN StripFrom(s, e + 1)
             ELSE <<s[i]>> \o StripFrom(s, i + 1)

\* (the text is evaluated once, then scanned)
strip_ansi(s) ==
    LET sub[x \in {s}] == StripFrom(x, 1)
    IN  sub[s]

\* ------------------------------------------------------------------------
\* _PROMPT_RE, searched in one line (re.search, re.IGNORECASE)
\* ------------------------------------------------------------------------

\* the literal lit matches l at position i, ignoring case
LitAt(l, i, lit) ==
    /\ i + Len(lit) - 1 <= Len(l)
    /\ \A k \in 1..Len(lit) : Lower(l[i + k - 1]) = Lower(lit[k])

\* \s*$ matches from position i on
SpacesToEnd(l, i) == \A j \in i..Len(l) : IsSpace(l[j])

\* c\s*$ for a single character c
CharThenEnd(l, c) == \E i \in 1..Len(l) : l[i] = c /\ SpacesToEnd(l, i + 1)

\* \(y[/|]n\)
YesNoMarker(l) ==
    \E i \in 1..Len(l) :
        /\ LitAt(l, i, <<"(", "y">>)
        /\ i + 2 <= Len(l) /\ l[i + 2] \in {"/", "|"}
        /\ LitAt(l, i + 3, <<"n", ")">>)

\* word\s+\S
WordThenArg(l, word) ==
    \E i \in 1..Len(l) :
        /\ LitAt(l, i, word)
        /\ \E q \in (i + Len(word) + 1)..Len(l) :
              /\ ~IsSpace(l[q])
              /\ \A r \in (i + Len(word))..(q - 1) : IsSpace(l[r])

PROMPT_RE_search(l) ==
    \/ CharThenEnd(l, "?")
    \/ YesNoMarker(l)
    \/ \E i \in 1..Len(l) : LitAt(l, i, <<"y","e","s","/","n","o">>)
    \/ CharThenEnd(l, ">")
    \/ WordThenArg(l, <<"E","n","t","e","r">>)
    \/ WordThenArg(l, <<"C","h","o","o","s","e">>)
    \/ WordThenArg(l, <<"P","l","e","a","s","e">>)
    \/ WordThenArg(l, <<"I","n","p","u","t">>)
    \/ CharThenEnd(l, ":")

\* next((l.rstrip('\r') for l in reversed(lines) if l.strip()), '')
RECURSIVE LastMeaningful(_)
LastMeaningful(lines) ==
    IF lines = <<>> THEN <<>>
    ELSE IF ~IsBlank(lines[Len(lines)]) THEN RStripCR(lines[Len(lines)])
    ELSE LastMeaningful(SubSeq(lines, 1, Len(lines) - 1))

\* variant: the missing-newline signal is tested without the blank test before it
LooksLikePromptNoBlankTest(text) ==
    LET clean == strip_ansi(text)
    IN  IF ~EndsWithNL(RStripCR(clean)) THEN TRUE
        ELSE PROMPT_RE_search(LastMeaningful(SplitNL(clean, <<>>)))

looks_like_prompt(text) ==
    LET verdict[clean \in {strip_ansi(text)}] ==
            IF IsBlank(clean) THEN FALSE
            ELSE IF ~EndsWithNL(RStripCR(clean)) THEN TRUE
            ELSE PROMPT_RE_search(LastMeaningful(SplitNL(clean, <<>>)))
    IN  verdict[strip_ansi(text)]


\* ------------------------------------------------------------------------
\* Program constants (durations in ticks of half a second)
\* ------------------------------------------------------------------------

\* SILENCE_THRESHOLD = 0.5 s
SILENCE_THRESHOLD == 1
\* USER_REPLY_TIMEOUT = 300 s
USER_REPLY_TIMEOUT == 600
\* min(10, ...): the longest long-poll, in seconds
POLL_MAX_SECS == 10
\* max(1, ...): the shortest long-poll, in seconds
POLL_MIN_SECS == 1
\* time.sleep(2) after a failed getUpdates
POLL_ERROR_SLEEP == 4
\* proc.wait(timeout=5)
WAIT_GRACE == 10
\* [:4096], Telegram's message limit
TELEGRAM_LIMIT == 4096

\* ------------------------------------------------------------------------
\* Inputs and environment
\* ------------------------------------------------------------------------

\* chat_id, and a conversation that is not chat_id
CHAT_ID == "42"
OTHER_CHAT == "7"

\* what a child writes in one go: a completed line, a prompt left mid-line,
\* a colour reset
Chunks == {
    <<"o", "k", NL>>,
    <<"G", "o", "?", " ">>,
    <<ESC, "[", "0", "m">> }

\* updates a channel delivers: a reply padded with blanks, a blank message of
\* the conversation, a message of another conversation, an update with no message
UpdateKinds == {
    [chat |-> CHAT_ID, text |-> <<" ", "y", " ">>],
    [chat |-> CHAT_ID, text |-> <<" ">>],
    [chat |-> OTHER_CHAT, text |-> <<"n">>],
    [chat |-> "", text |-> <<>>] }

\* the overall timeouts a caller passes, in seconds
Timeouts == {1, 2}

\* variant: the conversation of the update is not looked at
IsReplyAnyChat(u) == Strip(u.text) # <<>>

\* the update is a reply: it is of chat_id and its text, stripped, is not empty
IsReply(u) == u.chat = CHAT_ID /\ Strip(u.text) # <<>>

\* what the channel keeps of an update it was told to forget
Gone == [chat |-> "", text |-> <<"g", "o", "n", "e">>]

None == <<"None">>

VARIABLES
    pc,               \* where run_kiro_interactive is
    now,              \* time.time()
    deadline,         \* overall deadline
    last_update_id,   \* the watermark held by the session
    in_update_id,     \* the last_update_id the caller passed
    full_output,      \* everything received from the subprocess
    pending_buf,      \* output accumulated since the last handled prompt
    last_data_ts,
    silence_checked,
    got_data,
    exited,
    reply,            \* reply text returned by the poll, or None
    offset,           \* _poll_telegram_reply: offset
    poll_deadline,    \* _poll_telegram_reply: deadline
    after_id,         \* _poll_telegram_reply: after_id
    alive,            \* the child runs and holds the slave side open
    ptybuf,           \* bytes written by the child, not yet read
    emitted,          \* every byte the child wrote, in order
    nEmit,            \* number of chunks the child wrote
    childIn,          \* what was written to the child's input, in order
    signals,          \* signals sent to the child, in order
    updates,          \* the channel: updates[i] has update_id i
    replyIds,         \* the update ids that were posted as replies of chat_id
    masterCloses,     \* os.close(master_fd) calls that closed it
    slaveCloses,      \* os.close(slave_fd) calls that closed it
    fdMisuse,         \* a descriptor was used after it was closed
    sent,             \* _send_telegram calls, in order
    notifyOk,         \* the _send_telegram call before the wait or the cleanup
                      \* under way got through
    consumed,         \* update ids the polls returned, in order
    checksInWindow,   \* classifications since the last bytes arrived
    prompts,          \* classifications that found a prompt
    pollErrors,       \* failed getUpdates calls of the wait under way
    outcome,          \* how the session ended
    result,           \* what run_kiro_interactive returned
    cls_text,         \* classifier input
    cls_verdict,      \* classifier output
    mode,             \* telegram_bot.main: mode
    bot_offset,       \* telegram_bot.main: offset
    inbox,            \* the bot's channel: inbox[i] has update_id i
    batch,            \* update ids of data["result"] the for loop has yet to take
    update_id,        \* update["update_id"] of the update the for loop is at
    handled,          \* update ids the loop body was entered for, in order
    failed,           \* update ids whose handling raised
    dispatched,       \* invoke_bedrock and invoke_kiro calls, in order
    outbox,           \* send_message calls of main, in order
    files,            \* the watched folder: per path, the content or Absent
    events,           \* created/modified events not yet delivered
    nEvents,          \* events raised so far
    cf_base,          \* _OutputFolderHandler._cf_base
    seen,             \* _OutputFolderHandler._seen
    src_path,         \* _handle: src_path
    current_hash,     \* _handle: current_hash
    s3_key,           \* _handle: s3_key
    uploads,          \* S3Uploader.upload calls, in order
    notes,            \* TelegramNotifier.send calls, in order
    dropped           \* events _handle returned from as already processed

vars == <<pc, now, deadline, last_update_id, in_update_id, full_output,
          pending_buf, last_data_ts, silence_checked, got_data, exited, reply,
          offset, poll_deadline, after_id, alive, ptybuf, emitted, nEmit,
          childIn, signals, updates, replyIds, masterCloses, slaveCloses, fdMisuse, sent,
          consumed, checksInWindow, prompts, outcome, result, notifyOk, pollErrors,
          cls_text, cls_verdict,
          mode, bot_offset, inbox, batch, update_id, handled, failed,
          dispatched, outbox,
          files, events, nEvents, cf_base, seen, src_path, current_hash,
          s3_key, uploads, notes, dropped>>

ctlVars == <<pc, now, deadline, last_update_id, in_update_id, full_output,
             pending_buf, last_data_ts, silence_checked, got_data, exited, reply,
             offset, poll_deadline, after_id, masterCloses, slaveCloses,
             fdMisuse, sent, notifyOk, consumed, checksInWindow, prompts, outcome, result>>

clsVars == <<cls_text, cls_verdict>>

botVars == <<mode, bot_offset, inbox, batch, update_id, handled, failed,
             dispatched, outbox>>

monVars == <<files, events, nEvents, cf_base, seen, src_path, current_hash,
             s3_key, uploads, notes, dropped>>

Min(a, b) == IF a < b THEN a ELSE b
Max(a, b) == IF a > b THEN a ELSE b

\* ------------------------------------------------------------------------
\* Initial state: the caller has built the arguments, nothing has run
\* ------------------------------------------------------------------------

\* the channel is empty, or holds a message the caller's loop has consumed
\* (the caller passes the highest update_id it has processed)
Idle ==
    /\ now = 0
    /\ deadline = 0
    /\ updates \in {<<>>, <<[chat |-> CHAT_ID, text |-> <<"g", "o">>]>>}
    /\ in_update_id = Len(updates)
    /\ replyIds = 1..Len(updates)
    /\ last_update_id = in_update_id
    /\ full_output = <<>>
    /\ pending_buf = <<>>
    /\ last_data_ts = 0
    /\ silence_checked = FALSE
    /\ got_data = FALSE
    /\ exited = FALSE
    /\ reply = None
    /\ offset = 0
    /\ poll_deadline = 0
    /\ after_id = 0
    /\ alive = FALSE
    /\ ptybuf = <<>>
    /\ emitted = <<>>
    /\ nEmit = 0
    /\ childIn = <<>>
    /\ signals = <<>>
    /\ masterCloses = 0
    /\ slaveCloses = 0
    /\ fdMisuse = FALSE
    /\ sent = <<>>
    /\ notifyOk = TRUE
    /\ consumed = <<>>
    /\ checksInWindow = 0
    /\ prompts = 0
    /\ pollErrors = 0
    /\ outcome = "none"
    /\ result = None
    /\ cls_verdict = FALSE

\* telegram_bot.main has not run
IdleBot ==
    /\ mode = "chat"
    /\ bot_offset = 0
    /\ inbox = <<>>
    /\ batch = <<>>
    /\ update_id = 0
    /\ handled = <<>>
    /\ failed = {}
    /\ dispatched = <<>>
    /\ outbox = <<>>

\* the folder is empty and no handler was built
IdleMonitor ==
    /\ files = <<>>
    /\ events = <<>>
    /\ nEvents = 0
    /\ cf_base = <<>>
    /\ seen = <<>>
    /\ src_path = <<>>
    /\ current_hash = None
    /\ s3_key = None
    /\ uploads = <<>>
    /\ notes = <<>>
    /\ dropped = <<>>

Init ==
    /\ pc = "start"
    /\ cls_text = <<>>
    /\ Idle
    /\ IdleBot
    /\ IdleMonitor

envVars == <<alive, ptybuf, emitted, nEmit, childIn, signals, updates, replyIds, pollErrors>>

\* ------------------------------------------------------------------------
\* The environment: the child process and the operator's channel
\* ------------------------------------------------------------------------

\* The controller looks at the child only in some of its steps (proc.poll(),
\* select and os.read, os.write, the cleanup) and at the channel only in
\* getUpdates.  What the environment did since the last look is the same to the
\* controller whenever it happened, so the environment moves right before a look.
\* (What the child does during the cleanup is part of the cleanup step.)
ChannelBusy ==
    now - (poll_deadline - USER_REPLY_TIMEOUT) <= MaxBusyTurns * 2 * POLL_MAX_SECS
OutputSeen == pc \in {"drain", "write"}
ChildSeen == pc \in {"loop", "drain", "write"}
ChannelSeen == pc = "poll_loop"

\* the child writes a chunk to its terminal
ChildEmit ==
    /\ OutputSeen /\ alive /\ nEmit < MaxEmit
    /\ \E c \in Chunks :
          /\ ptybuf' = ptybuf \o c
          /\ emitted' = emitted \o c
    /\ nEmit' = nEmit + 1
    /\ UNCHANGED <<ctlVars, clsVars, botVars, monVars, alive, childIn, signals, updates, replyIds, pollErrors>>

\* the child exits (on its own, or on a signal); the slave side closes
ChildExit ==
    /\ ChildSeen /\ alive
    /\ alive' = FALSE
    /\ UNCHANGED <<ctlVars, clsVars, botVars, monVars, ptybuf, emitted, nEmit, childIn, signals, updates, replyIds, pollErrors>>

\* somebody posts a message; the channel numbers it
UserSend ==
    /\ ChannelSeen /\ Len(updates) < MaxUpd
    /\ ChannelBusy
    /\ \E u \in UpdateKinds :
          /\ updates' = Append(updates, u)
          /\ replyIds' = IF IsReply(u) THEN replyIds \cup {Len(updates) + 1}
                          ELSE replyIds
    /\ UNCHANGED <<ctlVars, clsVars, botVars, monVars, alive, ptybuf, emitted, nEmit, childIn, signals, pollErrors>>

\* ------------------------------------------------------------------------
\* _send_telegram
\* ------------------------------------------------------------------------

Truncate(s) == SubSeq(s, 1, Min(Len(s), TELEGRAM_LIMIT))

\* the record of one call: json={'chat_id': chat_id, 'text': _strip_ansi(text)[:4096]}
Notification(kind, body) ==
    [kind |-> kind, chat |-> CHAT_ID, text |-> Truncate(strip_ansi(body))]

KiroAsks == <<"K","i","r","o"," ","a","s","k","s",":",NL,NL>>

\* ------------------------------------------------------------------------
\* _poll_telegram_reply: helpers
\* ------------------------------------------------------------------------

\* variant: the poll starts at the watermark itself
FirstOffsetAtWatermark(after) == after

\* offset = after_id + 1
FirstOffset(after) == after + 1

\* variant: on timeout the watermark moves behind the updates that were skipped
TimeoutWatermarkAdvanced == offset - 1

\* variant: on timeout the watermark the session started with is returned
TimeoutWatermarkInput == in_update_id

\* return None, after_id
TimeoutWatermark == after_id

\* remaining = int(deadline - time.time()); poll_secs = min(10, max(1, remaining))
PollSecs(t) == Min(POLL_MAX_SECS, Max(POLL_MIN_SECS, (poll_deadline - t) \div 2))

\* the clock when the while loop ends, every getUpdates from time t on having
\* answered empty after its long poll
QuietUntil(t) ==
    LET after[x \in Nat] ==
            IF x < poll_deadline THEN after[x + 2 * PollSecs(x)] ELSE x
    IN  after[t]

\* for update in data.get('result', []): the updates uid..hi are walked in order;
\* the first reply is returned, otherwise offset ends behind the last update
RECURSIVE ScanUpdates(_, _, _)
ScanUpdates(uid, hi, off) ==
    IF uid > hi
    THEN [found |-> FALSE, text |-> None, uid |-> 0, offset |-> off]
    ELSE IF IsReply(updates[uid])
         THEN [found |-> TRUE, text |-> Strip(updates[uid].text), uid |-> uid,
               offset |-> uid + 1]
         ELSE ScanUpdates(uid + 1, hi, uid + 1)

\* ------------------------------------------------------------------------
\* run_kiro_interactive
\* ------------------------------------------------------------------------

\* the two textual error results
LaunchErrors == {"Error: kiro-cli not found on PATH.", "Error starting kiro-cli"}

\* variant: the except branch closes the master side only
LaunchFailsLeaksSlave ==
    /\ pc = "start"
    /\ \E err \in LaunchErrors :
          result' = [output |-> err, last_update_id |-> last_update_id]
    /\ masterCloses' = masterCloses + 1
    /\ slaveCloses' = slaveCloses
    /\ outcome' = "LaunchFailed"
    /\ pc' = "done"
    /\ UNCHANGED <<now, deadline, last_update_id, in_update_id, full_output,
                   pending_buf, last_data_ts, silence_checked, got_data, exited,
                   reply, offset, poll_deadline, after_id, fdMisuse, sent, notifyOk,
                   consumed, checksInWindow, prompts, envVars, clsVars, botVars, monVars>>

\* pty.openpty(), subprocess.Popen: the launch fails
LaunchFails ==
    /\ pc = "start"
    /\ \E err \in LaunchErrors :
          result' = [output |-> err, last_update_id |-> last_update_id]
    /\ masterCloses' = masterCloses + 1
    /\ slaveCloses' = slaveCloses + 1
    /\ outcome' = "LaunchFailed"
    /\ pc' = "done"
    /\ UNCHANGED <<now, deadline, last_update_id, in_update_id, full_output,
                   pending_buf, last_data_ts, silence_checked, got_data, exited,
                   reply, offset, poll_deadline, after_id, fdMisuse, sent, notifyOk,
                   consumed, checksInWindow, prompts, envVars, clsVars, botVars, monVars>>

\* the child is spawned; the parent closes the slave side and sets up the loop
Launch ==
    /\ pc = "start"
    /\ \E timeout \in Timeouts : deadline' = now + 2 * timeout
    /\ alive' = TRUE
    /\ slaveCloses' = slaveCloses + 1
    /\ full_output' = <<>>
    /\ pending_buf' = <<>>
    /\ last_data_ts' = now
    /\ silence_checked' = FALSE
    /\ pc' = "loop"
    /\ UNCHANGED <<now, last_update_id, in_update_id, got_data, exited, reply,
                   offset, poll_deadline, after_id, masterCloses, fdMisuse, sent, notifyOk,
                   consumed, checksInWindow, prompts, outcome, result, ptybuf, emitted,
                   nEmit, childIn, signals, updates, replyIds, pollErrors, clsVars, botVars, monVars>>

\* while time.time() < deadline: exited = proc.poll() is not None; got_data = False
LoopHead ==
    /\ pc = "loop"
    /\ IF now < deadline
       THEN /\ exited' = ~alive
            /\ got_data' = FALSE
            /\ pc' = "drain"
            /\ UNCHANGED outcome
       ELSE /\ outcome' = "DeadlineExceeded"
            /\ pc' = "finally"
            /\ UNCHANGED <<exited, got_data>>
    /\ UNCHANGED <<now, deadline, last_update_id, in_update_id, full_output,
                   pending_buf, last_data_ts, silence_checked, reply, offset,
                   poll_deadline, after_id, masterCloses, slaveCloses, fdMisuse,
                   sent, notifyOk, consumed, checksInWindow, prompts, result, envVars, clsVars, botVars, monVars>>

\* variant: the chunk replaces the buffer
ReceivedOverwrites(buf, chunk) == chunk

\* variant: the chunk is put in front of the buffer
ReceivedPrepends(buf, chunk) == chunk \o buf

\* full_output += chunk; pending_buf += chunk
Received(buf, chunk) == buf \o chunk

\* select says readable and os.read returns what the child wrote
DrainRead ==
    /\ pc = "drain"
    /\ ptybuf # <<>>
    /\ full_output' = Received(full_output, ptybuf)
    /\ pending_buf' = Received(pending_buf, ptybuf)
    /\ ptybuf' = <<>>
    /\ last_data_ts' = now
    /\ got_data' = TRUE
    /\ silence_checked' = FALSE
    /\ checksInWindow' = 0
    /\ fdMisuse' = (fdMisuse \/ masterCloses > 0)
    /\ UNCHANGED <<pc, now, deadline, last_update_id, in_update_id, exited, reply,
                   offset, poll_deadline, after_id, masterCloses, slaveCloses,
                   sent, notifyOk, consumed, prompts, outcome, result, alive, emitted, nEmit,
                   childIn, signals, updates, replyIds, pollErrors, clsVars, botVars, monVars>>

\* nothing to read (break), or the slave side is closed and os.read fails or
\* returns nothing (exited = True; break); then "if exited: break"
DrainEnd ==
    /\ pc = "drain"
    /\ ptybuf = <<>>
    /\ LET ex == exited \/ ~alive
       IN  /\ exited' = ex
           /\ IF ex
              THEN pc' = "finally" /\ outcome' = "Completed"
              ELSE pc' = "check" /\ UNCHANGED outcome
    /\ fdMisuse' = (fdMisuse \/ masterCloses > 0)
    /\ UNCHANGED <<now, deadline, last_update_id, in_update_id, full_output,
                   pending_buf, last_data_ts, silence_checked, got_data, reply,
                   offset, poll_deadline, after_id, masterCloses, slaveCloses,
                   sent, notifyOk, consumed, checksInWindow, prompts, result, envVars, clsVars, botVars, monVars>>

\* variant: the silence check without its latch
ShouldCheckNoLatch ==
    /\ ~got_data
    /\ now - last_data_ts >= SILENCE_THRESHOLD
    /\ pending_buf # <<>>

\* variant: the silence check does not look at the buffer
ShouldCheckEmptyBuffer ==
    /\ ~got_data
    /\ now - last_data_ts >= SILENCE_THRESHOLD
    /\ ~silence_checked

\* the condition of the silence check
ShouldCheck ==
    /\ ~got_data
    /\ now - last_data_ts >= SILENCE_THRESHOLD
    /\ pending_buf # <<>>
    /\ ~silence_checked

\* the silence check and the classification of pending_buf
SilenceCheck ==
    /\ pc = "check"
    /\ IF ShouldCheck
       THEN /\ silence_checked' = TRUE
            /\ checksInWindow' = checksInWindow + 1
            /\ IF looks_like_prompt(pending_buf)
               THEN pc' = "notify" /\ prompts' = prompts + 1
               ELSE pc' = "sleep" /\ UNCHANGED prompts
       ELSE /\ pc' = "sleep"
            /\ UNCHANGED <<silence_checked, checksInWindow, prompts>>
    /\ UNCHANGED <<now, deadline, last_update_id, in_update_id, full_output,
                   pending_buf, last_data_ts, got_data, exited, reply, offset,
                   poll_deadline, after_id, masterCloses, slaveCloses, fdMisuse,
                   sent, notifyOk, consumed, outcome, result, envVars, clsVars, botVars, monVars>>

\* variant: a notification that fails ends the session
NotifyPromptAborting ==
    /\ pc = "notify"
    /\ sent' = Append(sent, Notification("prompt",
                       KiroAsks \o Strip(strip_ansi(pending_buf))))
    /\ notifyOk' \in BOOLEAN
    /\ pc' = IF notifyOk' THEN "poll_loop" ELSE "finally"
    /\ after_id' = last_update_id
    /\ offset' = FirstOffset(last_update_id)
    /\ poll_deadline' = now + USER_REPLY_TIMEOUT
    /\ UNCHANGED <<now, deadline, last_update_id, in_update_id, full_output,
                   pending_buf, last_data_ts, silence_checked, got_data, exited,
                   reply, masterCloses, slaveCloses, fdMisuse, consumed,
                   checksInWindow, prompts, outcome, result, envVars, clsVars, botVars, monVars>>


\* variant: the notification carries the whole transcript
NotifyPromptWholeTranscript ==
    /\ pc = "notify"
    /\ sent' = Append(sent, Notification("prompt",
                       KiroAsks \o Strip(strip_ansi(full_output))))
    /\ notifyOk' \in BOOLEAN
    /\ after_id' = last_update_id
    /\ offset' = FirstOffset(last_update_id)
    /\ poll_deadline' = now + USER_REPLY_TIMEOUT
    /\ pc' = "poll_loop"
    /\ UNCHANGED <<now, deadline, last_update_id, in_update_id, full_output,
                   pending_buf, last_data_ts, silence_checked, got_data, exited,
                   reply, masterCloses, slaveCloses, fdMisuse, consumed,
                   checksInWindow, prompts, outcome, result, envVars, clsVars, botVars, monVars>>

\* variant: the prompt is notified twice
NotifyPromptTwice ==
    /\ pc = "notify"
    /\ LET note == Notification("prompt", KiroAsks \o Strip(strip_ansi(pending_buf)))
       IN  sent' = sent \o <<note, note>>
    /\ notifyOk' \in BOOLEAN
    /\ after_id' = last_update_id
    /\ offset' = FirstOffset(last_update_id)
    /\ poll_deadline' = now + USER_REPLY_TIMEOUT
    /\ pc' = "poll_loop"
    /\ UNCHANGED <<now, deadline, last_update_id, in_update_id, full_output,
                   pending_buf, last_data_ts, silence_checked, got_data, exited,
                   reply, masterCloses, slaveCloses, fdMisuse, consumed,
                   checksInWindow, prompts, outcome, result, envVars, clsVars, botVars, monVars>>

\* _send_telegram(api_key, chat_id, 'Kiro asks:...'); then the poll is entered:
\* offset = after_id + 1; deadline = time.time() + timeout
NotifyPrompt ==
    /\ pc = "notify"
    /\ sent' = Append(sent, Notification("prompt",
                       KiroAsks \o Strip(strip_ansi(pending_buf))))
    /\ notifyOk' \in BOOLEAN
    /\ after_id' = last_update_id
    /\ offset' = FirstOffset(last_update_id)
    /\ poll_deadline' = now + USER_REPLY_TIMEOUT
    /\ pc' = "poll_loop"
    /\ UNCHANGED <<now, deadline, last_update_id, in_update_id, full_output,
                   pending_buf, last_data_ts, silence_checked, got_data, exited,
                   reply, masterCloses, slaveCloses, fdMisuse, consumed,
                   checksInWindow, prompts, outcome, result, envVars, clsVars, botVars, monVars>>


\* ------------------------------------------------------------------------
\* _poll_telegram_reply: the loop
\* ------------------------------------------------------------------------

\* getUpdates with offset o confirms the updates below o: the channel forgets them
Confirm(o) == [i \in 1..Len(updates) |-> IF i < o THEN Gone ELSE updates[i]]

\* one turn of the while loop: getUpdates raises, and the loop sleeps
PollError ==
    /\ pc = "poll_loop"
    /\ now < poll_deadline
    /\ ChannelBusy
    /\ pollErrors < MaxPollErrors
    /\ pollErrors' = pollErrors + 1
    /\ now' = now + POLL_ERROR_SLEEP
    /\ UNCHANGED <<pc, deadline, last_update_id, in_update_id, full_output,
                   pending_buf, last_data_ts, silence_checked, got_data, exited,
                   reply, offset, poll_deadline, after_id, masterCloses,
                   slaveCloses, fdMisuse, sent, notifyOk, consumed, checksInWindow, prompts, outcome,
                   result, alive, ptybuf, emitted, nEmit, childIn, signals,
                   updates, replyIds, clsVars, botVars, monVars>>

\* one turn of the while loop: getUpdates answers with the updates from offset on
\* (at once when there are some, empty when the long poll has run out); the
\* answer is walked.  Once the channel is quiet, the turns that are left all
\* answer empty and are taken in one step.
PollGet ==
    /\ pc = "poll_loop"
    /\ now < poll_deadline
    /\ LET hi == Len(updates)
           lo == Max(offset, 1)
           scan == ScanUpdates(lo, hi, offset)
       IN  /\ now' = IF lo <= hi THEN now
                     ELSE IF ChannelBusy THEN now + 2 * PollSecs(now)
                     ELSE QuietUntil(now)
           /\ updates' = Confirm(offset)
           /\ IF scan.found
              THEN /\ reply' = scan.text
                   /\ last_update_id' = scan.uid
                   /\ consumed' = Append(consumed, scan.uid)
                   /\ offset' = 0 /\ poll_deadline' = 0 /\ after_id' = 0
                   /\ pollErrors' = 0 /\ notifyOk' = TRUE
                   /\ pc' = "write"
              ELSE /\ offset' = scan.offset
                   /\ UNCHANGED <<reply, last_update_id, consumed, pc,
                                  poll_deadline, after_id, pollErrors, notifyOk>>
    /\ UNCHANGED <<deadline, in_update_id, full_output, pending_buf, last_data_ts,
                   silence_checked, got_data, exited, masterCloses, slaveCloses,
                   fdMisuse, sent, checksInWindow, prompts, outcome, result, alive,
                   ptybuf, emitted, nEmit, childIn, signals, replyIds, clsVars, botVars, monVars>>

\* the text of the timeout notification
NoReplyText == <<"N","o"," ","r","e","p","l","y">>

\* variant: the reply wait has no time limit, so a wait that gets no reply
\* does not end
ReplyTimeoutNever ==
    /\ pc = "poll_loop"
    /\ FALSE
    /\ UNCHANGED vars

\* the while loop ends: return None, after_id.  Then, in the caller:
\* "if reply is None": the timeout notification, proc.terminate(), break
ReplyTimeout ==
    /\ pc = "poll_loop"
    /\ now >= poll_deadline
    /\ reply' = None
    /\ last_update_id' = TimeoutWatermark
    /\ sent' = Append(sent, Notification("timeout", NoReplyText))
    /\ notifyOk' \in BOOLEAN
    /\ signals' = IF alive THEN Append(signals, "TERM") ELSE signals
    /\ outcome' = "TimedOut"
    /\ offset' = 0 /\ poll_deadline' = 0 /\ after_id' = 0
    /\ pollErrors' = 0
    /\ pc' = "finally"
    /\ UNCHANGED <<now, deadline, in_update_id, full_output, pending_buf,
                   last_data_ts, silence_checked, got_data, exited,
                   masterCloses, slaveCloses, fdMisuse,
                   consumed, checksInWindow, prompts, result, alive, ptybuf, emitted,
                   nEmit, childIn, updates, replyIds, clsVars, botVars, monVars>>

\* variant: the reply is written without the newline
WriteReplyNoNewline ==
    /\ pc = "write"
    /\ fdMisuse' = (fdMisuse \/ masterCloses > 0)
    /\ \/ /\ childIn' = Append(childIn, reply)
          /\ pending_buf' = <<>>
          /\ last_data_ts' = now
          /\ silence_checked' = FALSE
          /\ pc' = "sleep"
          /\ UNCHANGED outcome
       \/ /\ ~alive
          /\ outcome' = "WriteFailed"
          /\ pc' = "finally"
          /\ UNCHANGED <<childIn, pending_buf, last_data_ts, silence_checked>>
    /\ UNCHANGED <<now, deadline, last_update_id, in_update_id, full_output,
                   got_data, exited, reply, offset, poll_deadline, after_id,
                   masterCloses, slaveCloses, sent, notifyOk, consumed, checksInWindow, prompts,
                   result, alive, ptybuf, emitted, nEmit, signals, updates, replyIds,
                   pollErrors, clsVars, botVars, monVars>>

\* variant: pending_buf is not cleared after the reply is written
WriteReplyKeepsPending ==
    /\ pc = "write"
    /\ fdMisuse' = (fdMisuse \/ masterCloses > 0)
    /\ \/ /\ childIn' = Append(childIn, reply \o <<NL>>)
          /\ pending_buf' = pending_buf
          /\ last_data_ts' = now
          /\ silence_checked' = FALSE
          /\ pc' = "sleep"
          /\ UNCHANGED outcome
       \/ /\ ~alive
          /\ outcome' = "WriteFailed"
          /\ pc' = "finally"
          /\ UNCHANGED <<childIn, pending_buf, last_data_ts, silence_checked>>
    /\ UNCHANGED <<now, deadline, last_update_id, in_update_id, full_output,
                   got_data, exited, reply, offset, poll_deadline, after_id,
                   masterCloses, slaveCloses, sent, notifyOk, consumed, checksInWindow, prompts,
                   result, alive, ptybuf, emitted, nEmit, signals, updates, replyIds,
                   pollErrors, clsVars, botVars, monVars>>

\* os.write(master_fd, (reply + '\n').encode()); on OSError: break; otherwise
\* pending_buf = ''; last_data_ts = time.time(); silence_checked = False
WriteReply ==
    /\ pc = "write"
    /\ fdMisuse' = (fdMisuse \/ masterCloses > 0)
    /\ \/ /\ childIn' = Append(childIn, reply \o <<NL>>)
          /\ pending_buf' = <<>>
          /\ last_data_ts' = now
          /\ silence_checked' = FALSE
          /\ pc' = "sleep"
          /\ UNCHANGED outcome
       \/ /\ ~alive
          /\ outcome' = "WriteFailed"
          /\ pc' = "finally"
          /\ UNCHANGED <<childIn, pending_buf, last_data_ts, silence_checked>>
    /\ UNCHANGED <<now, deadline, last_update_id, in_update_id, full_output,
                   got_data, exited, reply, offset, poll_deadline, after_id,
                   masterCloses, slaveCloses, sent, notifyOk, consumed, checksInWindow, prompts,
                   result, alive, ptybuf, emitted, nEmit, signals, updates, replyIds,
                   pollErrors, clsVars, botVars, monVars>>

\* time.sleep(0.05): less than a tick, so the clock shows the same tick or the next
Sleep ==
    /\ pc = "sleep"
    /\ \E d \in {0, 1} : now' = now + d
    /\ pc' = "loop"
    /\ UNCHANGED <<deadline, last_update_id, in_update_id, full_output,
                   pending_buf, last_data_ts, silence_checked, got_data, exited,
                   reply, offset, poll_deadline, after_id, masterCloses,
                   slaveCloses, fdMisuse, sent, notifyOk, consumed, checksInWindow, prompts, outcome,
                   result, envVars, clsVars, botVars, monVars>>

\* variant: the raw output is returned
ReturnedUnstripped == [output |-> full_output, last_update_id |-> last_update_id]

\* return _strip_ansi(full_output), last_update_id
Returned == [output |-> strip_ansi(full_output), last_update_id |-> last_update_id]

\* variant: a child that runs is killed at once
EscalationKillFirst(how) ==
    CASE how = "gone" -> <<>>
      [] how = "graceful" -> <<"KILL">>
      [] how = "stubborn" -> <<"KILL">>

\* variant: no proc.kill() after the grace period
EscalationNoKill(how) ==
    CASE how = "gone" -> <<>>
      [] how = "graceful" -> <<"TERM">>
      [] how = "stubborn" -> <<"TERM">>

\* the signals of the cleanup: none for a child that has exited, terminate(),
\* and kill() when the grace period runs out
Escalation(how) ==
    CASE how = "gone" -> <<>>
      [] how = "graceful" -> <<"TERM">>
      [] how = "stubborn" -> <<"TERM", "KILL">>

\* variant: the cleanup reads what is left of the child's output
FinallyDrains ==
    /\ pc = "finally"
    /\ masterCloses' = masterCloses + 1
    /\ IF alive
       THEN \E how \in {"gone", "graceful", "stubborn"} :
               /\ signals' = signals \o Escalation(how)
               /\ alive' = (how = "stubborn" /\ Escalation(how) # <<"TERM", "KILL">>)
               /\ now' = IF how = "stubborn" THEN now + WAIT_GRACE ELSE now
       ELSE UNCHANGED <<signals, now, alive>>
    /\ notifyOk' = TRUE
    /\ full_output' = full_output \o ptybuf
    /\ ptybuf' = <<>>
    /\ result' = [output |-> strip_ansi(full_output \o ptybuf),
                  last_update_id |-> last_update_id]
    /\ pc' = "done"
    /\ UNCHANGED <<deadline, last_update_id, in_update_id,
                   pending_buf, last_data_ts, silence_checked, got_data, exited,
                   reply, offset, poll_deadline, after_id, slaveCloses, fdMisuse,
                   sent, consumed, checksInWindow, prompts, outcome,
                   emitted, nEmit, childIn, updates, replyIds, pollErrors,
                   clsVars, botVars, monVars>>

\* finally: os.close(master_fd); if proc.poll() is None: proc.terminate(), then
\* proc.wait(timeout=5) and, on TimeoutExpired, proc.kill(); then the return.
\* A child that ran at the break has exited by the time it is polled (gone),
\* exits on the signal within the grace period (graceful), or does not
\* (stubborn); only a kill ends a stubborn child.
Finally ==
    /\ pc = "finally"
    /\ masterCloses' = masterCloses + 1
    /\ IF alive
       THEN \E how \in {"gone", "graceful", "stubborn"} :
               /\ signals' = signals \o Escalation(how)
               /\ alive' = (how = "stubborn" /\ Escalation(how) # <<"TERM", "KILL">>)
               /\ now' = IF how = "stubborn" THEN now + WAIT_GRACE ELSE now
       ELSE UNCHANGED <<signals, now, alive>>
    /\ notifyOk' = TRUE
    /\ result' = Returned
    /\ pc' = "done"
    /\ UNCHANGED <<deadline, last_update_id, in_update_id, full_output,
                   pending_buf, last_data_ts, silence_checked, got_data, exited,
                   reply, offset, poll_deadline, after_id, slaveCloses, fdMisuse,
                   sent, consumed, checksInWindow, prompts, outcome, ptybuf,
                   emitted, nEmit, childIn, updates, replyIds, pollErrors,
                   clsVars, botVars, monVars>>

Next ==
    \/ ChildEmit
    \/ ChildExit
    \/ UserSend
    \/ LaunchFails
    \/ Launch
    \/ LoopHead
    \/ DrainRead
    \/ DrainEnd
    \/ SilenceCheck
    \/ NotifyPrompt
    \/ PollError
    \/ PollGet
    \/ ReplyTimeout
    \/ WriteReply
    \/ Sleep
    \/ Finally

Spec == Init /\ [][Next]_vars


\* the steps of the controller, as against those of the child and the channel
Controller ==
    \/ LaunchFails \/ Launch \/ LoopHead \/ DrainRead \/ DrainEnd
    \/ SilenceCheck \/ NotifyPrompt \/ PollError \/ PollGet \/ ReplyTimeout
    \/ WriteReply \/ Sleep \/ Finally

\* a sleep over which the clock shows the next tick
ClockTick == Sleep /\ now' = now + 1

\* the controller keeps running, and time passes: of the sleeps of 50 ms, one
\* in a while ends in the next tick
SpecLive == Init /\ [][Next]_vars /\ WF_vars(Controller) /\ SF_vars(ClockTick)

\* ------------------------------------------------------------------------
\* The classifier on its own: _looks_like_prompt applied to a drawn text
\* ------------------------------------------------------------------------

ClsAlphabet == {"a", "?", ":", ">", " ", NL, CR, ESC, "[", "m"}

\* every text over the alphabet, up to the bound
ShortTexts == UNION {[1..k -> ClsAlphabet] : k \in 0..MaxLen}

ContinueYN == <<"C","o","n","t","i","n","u","e","?"," ","(","y","/","n",")"," ">>
PleaseEnterName ==
    <<"P","l","e","a","s","e"," ","e","n","t","e","r"," ","y","o","u","r"," ",
      "n","a","m","e",":"," ">>
BarePrompt == <<">", " ">>
BuildSucceeded ==
    <<"B","u","i","l","d"," ","s","u","c","c","e","e","d","e","d",".",NL>>

\* completed lines, one for each alternative of the pattern and some near misses
SampleLines == {
    <<"S","u","r","e","?"," ",NL>>,
    <<"o","k"," ","(","Y","/","n",")"," ","n","o","w",NL>>,
    <<"o","k"," ","(","y","|","N",")",NL>>,
    <<"(","y","n",")",NL>>,
    <<"s","a","y"," ","Y","e","s","/","N","o"," ","n","o","w",NL>>,
    <<"k","i","r","o",">"," ",CR,NL>>,
    <<"a",">","b",NL>>,
    <<"E","N","T","E","R"," "," ","x",NL>>,
    <<"E","n","t","e","r"," ",NL>>,
    <<"E","n","t","e","r","i","n","g"," ","x",NL>>,
    <<"c","h","o","o","s","e","\t","1",NL>>,
    <<"P","l","e","a","s","e"," ","w","a","i","t",NL>>,
    <<"I","n","p","u","t"," ","x",NL>>,
    <<"I","n","p","u","t","s",NL>>,
    <<"N","a","m","e",":",NL>>,
    <<"a",":","b",NL>>,
    <<"G","o","?",NL,"o","k",NL>>,
    <<"o","k",NL,"G","o","?",NL," ",NL,CR>>,
    <<ESC,"[","1",";","3","1","m","G","o","?",ESC,"[","0","m",NL>>,
    <<"o","k",NL,ESC,"[","0","m">>,
    <<ESC,"[","2","J",ESC,"[","H">>,
    <<ESC,"[","?","2","5","l","o","k",NL>> }

ClsTexts ==
    ShortTexts \cup SampleLines
        \cup {ContinueYN, PleaseEnterName, BarePrompt, BuildSucceeded}

InitCls ==
    /\ pc = "classify"
    /\ cls_text \in ClsTexts
    /\ Idle
    /\ IdleBot
    /\ IdleMonitor

Classify ==
    /\ pc = "classify"
    /\ cls_verdict' = looks_like_prompt(cls_text)
    /\ pc' = "classified"
    /\ UNCHANGED <<now, deadline, last_update_id, in_update_id, full_output,
                   pending_buf, last_data_ts, silence_checked, got_data, exited,
                   reply, offset, poll_deadline, after_id, masterCloses,
                   slaveCloses, fdMisuse, sent, notifyOk, consumed,
                   checksInWindow, prompts, outcome, result, envVars, cls_text,
                   botVars, monVars>>

NextCls == Classify

SpecCls == InitCls /\ [][NextCls]_vars

\* ------------------------------------------------------------------------
\* telegram_bot.main: the outer loop of the bot
\* ------------------------------------------------------------------------

\* texts a user sends: the three commands, a plain message, and a message
\* that only begins like a command
BotTexts == {"/chat", "/code", "/help", "hello", "/chat now"}

\* updates of the channel: messages with a text, a message without one, and
\* an update that is not a message
BotUpdates ==
    {[message |-> [text |-> t]] : t \in BotTexts}
        \cup {[message |-> [photo |-> "p.jpg"]],
              [edited_message |-> [text |-> "/code"]]}

\* "message" in update and "text" in update["message"]
HasText(update) ==
    /\ "message" \in DOMAIN update
    /\ "text" \in DOMAIN update.message

\* the texts that are not passed on to a backend
IsCommand(user_text) == user_text \in {"/chat", "/code", "/help"}

\* variant: /help also goes back to the default mode
ModeAfterHelpResets(m, user_text) ==
    CASE user_text = "/chat" -> "chat"
      [] user_text = "/code" -> "code"
      [] user_text = "/help" -> "chat"
      [] OTHER -> m

\* the mode after a text was handled
ModeAfter(m, user_text) ==
    CASE user_text = "/chat" -> "chat"
      [] user_text = "/code" -> "code"
      [] OTHER -> m

\* the backend an ordinary message goes to
Backend(m) == IF m = "chat" THEN "bedrock" ELSE "kiro"

\* the reply to a text
BotReply(m, user_text) ==
    CASE user_text = "/chat" ->
            [by |-> "bot", text |-> "Switched to chat mode (Bedrock)"]
      [] user_text = "/code" ->
            [by |-> "bot", text |-> "Switched to code mode (Kiro CLI)"]
      [] user_text = "/help" ->
            [by |-> "bot", text |-> "Available commands"]
      [] OTHER ->
            [by |-> Backend(m), text |-> user_text]

\* getUpdates: the ids of the updates at or above the offset, in order
GetUpdates(o) ==
    [i \in 1..(Len(inbox) + 1 - Max(o, 1)) |-> Max(o, 1) + i - 1]

\* variant: the offset is left at the update taken
OffsetAfterSame(id) == id

\* the offset that confirms the update taken
OffsetAfter(id) == id + 1

InitBot ==
    /\ pc = "bot_poll"
    /\ cls_text = <<>>
    /\ Idle
    /\ updates = <<>>
    /\ IdleBot
    /\ IdleMonitor

\* a user sends a message while the bot waits in a long poll
UserPosts ==
    /\ pc = "bot_poll"
    /\ Len(inbox) < MaxPosts
    /\ \E u \in BotUpdates : inbox' = Append(inbox, u)
    /\ UNCHANGED <<pc, mode, bot_offset, batch, update_id, handled, failed,
                   dispatched, outbox>>
    /\ UNCHANGED <<now, deadline, last_update_id, in_update_id, full_output,
                   pending_buf, last_data_ts, silence_checked, got_data, exited,
                   reply, offset, poll_deadline, after_id, masterCloses,
                   slaveCloses, fdMisuse, sent, notifyOk, consumed,
                   checksInWindow, prompts, outcome, result, envVars, clsVars,
                   monVars>>

\* one getUpdates call: it raises (the request or the decoding), or it
\* gives the updates at or above the offset; an empty answer starts over
BotPoll ==
    /\ pc = "bot_poll"
    /\ \/ /\ pc' = "bot_sleep"
          /\ batch' = <<>>
       \/ /\ batch' = GetUpdates(bot_offset)
          /\ pc' = IF batch' = <<>> THEN "bot_poll" ELSE "bot_for"
    /\ UNCHANGED <<mode, bot_offset, inbox, update_id, handled, failed,
                   dispatched, outbox>>
    /\ UNCHANGED <<now, deadline, last_update_id, in_update_id, full_output,
                   pending_buf, last_data_ts, silence_checked, got_data, exited,
                   reply, offset, poll_deadline, after_id, masterCloses,
                   slaveCloses, fdMisuse, sent, notifyOk, consumed,
                   checksInWindow, prompts, outcome, result, envVars, clsVars,
                   monVars>>

\* the for loop takes the next update and moves the offset past it
BotTake ==
    /\ pc = "bot_for"
    /\ IF batch = <<>>
       THEN /\ pc' = "bot_poll"
            /\ UNCHANGED <<batch, update_id, bot_offset, handled>>
       ELSE /\ update_id' = Head(batch)
            /\ batch' = Tail(batch)
            /\ bot_offset' = OffsetAfter(Head(batch))
            /\ handled' = Append(handled, Head(batch))
            /\ pc' = "bot_handle"
    /\ UNCHANGED <<mode, inbox, failed, dispatched, outbox>>
    /\ UNCHANGED <<now, deadline, last_update_id, in_update_id, full_output,
                   pending_buf, last_data_ts, silence_checked, got_data, exited,
                   reply, offset, poll_deadline, after_id, masterCloses,
                   slaveCloses, fdMisuse, sent, notifyOk, consumed,
                   checksInWindow, prompts, outcome, result, envVars, clsVars,
                   monVars>>

\* the body of the for loop.  The backends and send_message catch their
\* errors; what can raise is a print: the one before the text is looked at
\* ("received") or the one after the reply was sent ("sent")
BotHandle ==
    /\ pc = "bot_handle"
    /\ IF ~HasText(inbox[update_id])
       THEN /\ pc' = "bot_for"
            /\ UNCHANGED <<mode, batch, failed, dispatched, outbox>>
       ELSE \E raises \in {"none", "received", "sent"} :
              LET user_text == inbox[update_id].message.text
              IN  IF raises = "received"
                  THEN /\ failed' = failed \cup {update_id}
                       /\ batch' = <<>>
                       /\ pc' = "bot_sleep"
                       /\ UNCHANGED <<mode, dispatched, outbox>>
                  ELSE /\ mode' = ModeAfter(mode, user_text)
                       /\ dispatched' =
                            IF IsCommand(user_text)
                            THEN dispatched
                            ELSE Append(dispatched,
                                        [update_id |-> update_id,
                                         backend |-> Backend(mode),
                                         prompt |-> user_text])
                       /\ outbox' = Append(outbox,
                                           [update_id |-> update_id,
                                            reply |-> BotReply(mode, user_text)])
                       /\ IF raises = "sent"
                          THEN /\ failed' = failed \cup {update_id}
                               /\ batch' = <<>>
                               /\ pc' = "bot_sleep"
                          ELSE /\ pc' = "bot_for"
                               /\ UNCHANGED <<failed, batch>>
    /\ UNCHANGED <<bot_offset, inbox, update_id, handled>>
    /\ UNCHANGED <<now, deadline, last_update_id, in_update_id, full_output,
                   pending_buf, last_data_ts, silence_checked, got_data, exited,
                   reply, offset, poll_deadline, after_id, masterCloses,
                   slaveCloses, fdMisuse, sent, notifyOk, consumed,
                   checksInWindow, prompts, outcome, result, envVars, clsVars,
                   monVars>>

\* the handler of the errors: a pause of five seconds, then the next poll
BotSleep ==
    /\ pc = "bot_sleep"
    /\ pc' = "bot_poll"
    /\ UNCHANGED <<now, deadline, last_update_id, in_update_id, full_output,
                   pending_buf, last_data_ts, silence_checked, got_data, exited,
                   reply, offset, poll_deadline, after_id, masterCloses,
                   slaveCloses, fdMisuse, sent, notifyOk, consumed,
                   checksInWindow, prompts, outcome, result, envVars, clsVars,
                   botVars, monVars>>

NextBot ==
    \/ UserPosts
    \/ BotPoll
    \/ BotTake
    \/ BotHandle
    \/ BotSleep

SpecBot == InitBot /\ [][NextBot]_vars

\* ------------------------------------------------------------------------
\* folder_monitor._OutputFolderHandler: the handler of the folder's events
\* ------------------------------------------------------------------------

\* a path that is no regular file
Absent == 0

\* what a file holds
Contents == {1, 2}

\* the paths of the folder, by file name: two ordinary files, a hidden file
\* and a temporary file
MonPaths == { <<"a">>, <<"b", ".", "m", "d">>, <<".", "a">>,
              <<"a", ".", "t", "m", "p">> }

\* a directory of the folder
DirPath == <<"d">>

\* values of CLOUDFRONT_BASE_URL
Urls == { <<>>, <<"/">>, <<"u">>, <<"u", "/">> }

RECURSIVE RStripSlash(_)
\* str.rstrip("/")
RStripSlash(s) ==
    IF s # <<>> /\ s[Len(s)] = "/"
    THEN RStripSlash(SubSeq(s, 1, Len(s) - 1))
    ELSE s

\* the base url the handler keeps
CfBase(cloudfront_base_url) ==
    IF cloudfront_base_url # <<>> THEN RStripSlash(cloudfront_base_url) ELSE <<>>

\* str.rfind("."), counted from one; zero if there is none
LastDot(name) ==
    LET dots == {i \in 1..Len(name) : name[i] = "."}
    IN  IF dots = {} THEN 0 ELSE CHOOSE i \in dots : \A j \in dots : j <= i

\* PurePath.suffix
Suffix(name) ==
    IF LastDot(name) > 1 /\ LastDot(name) < Len(name)
    THEN SubSeq(name, LastDot(name), Len(name))
    ELSE <<>>

\* _should_skip
should_skip(path) ==
    \/ Head(path) = "."
    \/ Suffix(path) \in { <<".", "t", "m", "p">>, <<".", "p", "a", "r", "t">>,
                          <<".", "s", "w", "p">> }

\* Path.is_file
is_file(path) == path \in DOMAIN files /\ files[path] # Absent

\* _file_hash: the digest of a content
file_hash(content) == <<"md5", content>>

\* dict.get
SeenGet(d, path) == IF path \in DOMAIN d THEN d[path] ELSE None

\* variant: every version read is uploaded
ShouldUploadAlways(recorded, hash) == TRUE

\* the version read is not the one recorded for the path
ShouldUpload(recorded, hash) == recorded # hash

InitMon ==
    /\ pc = "mon_idle"
    /\ cls_text = <<>>
    /\ Idle
    /\ updates = <<>>
    /\ IdleBot
    /\ files = [p \in MonPaths |-> Absent]
    /\ events = <<>>
    /\ nEvents = 0
    /\ cf_base \in {CfBase(u) : u \in Urls}
    /\ seen = <<>>
    /\ src_path = <<>>
    /\ current_hash = None
    /\ s3_key = None
    /\ uploads = <<>>
    /\ notes = <<>>
    /\ dropped = <<>>

\* something writes to the folder, while the handler is idle or pauses: a
\* file is written (maybe with the content it had) or removed, or a
\* directory is made; the observer queues an event
Writer ==
    /\ pc \in {"mon_idle", "mon_sleep"}
    /\ nEvents < MaxEvents
    /\ nEvents' = nEvents + 1
    /\ \/ \E p \in MonPaths, c \in {Absent} \cup Contents :
             /\ files' = [files EXCEPT ![p] = c]
             /\ events' = Append(events, [src_path |-> p, is_directory |-> FALSE])
       \/ /\ files' = files
          /\ events' = Append(events, [src_path |-> DirPath, is_directory |-> TRUE])
    /\ UNCHANGED <<pc, cf_base, seen, src_path, current_hash, s3_key, uploads,
                   notes, dropped>>
    /\ UNCHANGED <<now, deadline, last_update_id, in_update_id, full_output,
                   pending_buf, last_data_ts, silence_checked, got_data, exited,
                   reply, offset, poll_deadline, after_id, masterCloses,
                   slaveCloses, fdMisuse, sent, notifyOk, consumed,
                   checksInWindow, prompts, outcome, result, envVars, clsVars,
                   botVars>>

\* on_created, on_modified and the head of _handle: events of directories,
\* of paths that are no files and of skipped names are dropped
MonEvent ==
    /\ pc = "mon_idle"
    /\ events # <<>>
    /\ events' = Tail(events)
    /\ IF \/ Head(events).is_directory
          \/ ~is_file(Head(events).src_path)
          \/ should_skip(Head(events).src_path)
       THEN UNCHANGED <<pc, src_path>>
       ELSE /\ src_path' = Head(events).src_path
            /\ pc' = "mon_sleep"
    /\ UNCHANGED <<files, nEvents, cf_base, seen, current_hash, s3_key,
                   uploads, notes, dropped>>
    /\ UNCHANGED <<now, deadline, last_update_id, in_update_id, full_output,
                   pending_buf, last_data_ts, silence_checked, got_data, exited,
                   reply, offset, poll_deadline, after_id, masterCloses,
                   slaveCloses, fdMisuse, sent, notifyOk, consumed,
                   checksInWindow, prompts, outcome, result, envVars, clsVars,
                   botVars>>

\* after the pause: the file is read and its hash compared with the one
\* recorded for the path; a new hash is recorded
MonHash ==
    /\ pc = "mon_sleep"
    /\ IF files[src_path] = Absent
       THEN /\ pc' = "mon_idle"
            /\ UNCHANGED <<current_hash, seen, dropped>>
       ELSE /\ current_hash' = file_hash(files[src_path])
            /\ IF ShouldUpload(SeenGet(seen, src_path), current_hash')
               THEN /\ seen' = [q \in DOMAIN seen \cup {src_path} |->
                                   IF q = src_path THEN current_hash' ELSE seen[q]]
                    /\ pc' = "mon_upload"
                    /\ UNCHANGED dropped
               ELSE /\ dropped' = Append(dropped, [path |-> src_path,
                                                   hash |-> current_hash'])
                    /\ pc' = "mon_idle"
                    /\ UNCHANGED seen
    /\ UNCHANGED <<files, events, nEvents, cf_base, src_path, s3_key, uploads,
                   notes>>
    /\ UNCHANGED <<now, deadline, last_update_id, in_update_id, full_output,
                   pending_buf, last_data_ts, silence_checked, got_data, exited,
                   reply, offset, poll_deadline, after_id, masterCloses,
                   slaveCloses, fdMisuse, sent, notifyOk, consumed,
                   checksInWindow, prompts, outcome, result, envVars, clsVars,
                   botVars>>

\* S3Uploader.upload: the key, or None after an error
MonUpload ==
    /\ pc = "mon_upload"
    /\ \E ok \in BOOLEAN :
          /\ s3_key' = IF ok THEN src_path ELSE None
          /\ uploads' = Append(uploads, [path |-> src_path,
                                         hash |-> current_hash, ok |-> ok])
    /\ pc' = "mon_notify"
    /\ UNCHANGED <<files, events, nEvents, cf_base, seen, src_path,
                   current_hash, notes, dropped>>
    /\ UNCHANGED <<now, deadline, last_update_id, in_update_id, full_output,
                   pending_buf, last_data_ts, silence_checked, got_data, exited,
                   reply, offset, poll_deadline, after_id, masterCloses,
                   slaveCloses, fdMisuse, sent, notifyOk, consumed,
                   checksInWindow, prompts, outcome, result, envVars, clsVars,
                   botVars>>

\* the message with the url, if there is a key and a base url
MonNotify ==
    /\ pc = "mon_notify"
    /\ notes' = IF s3_key # None /\ cf_base # <<>>
                THEN Append(notes, [path |-> src_path, hash |-> current_hash,
                                    url |-> cf_base \o <<"/">> \o s3_key])
                ELSE notes
    /\ pc' = "mon_idle"
    /\ UNCHANGED <<files, events, nEvents, cf_base, seen, src_path,
                   current_hash, s3_key, uploads, dropped>>
    /\ UNCHANGED <<now, deadline, last_update_id, in_update_id, full_output,
                   pending_buf, last_data_ts, silence_checked, got_data, exited,
                   reply, offset, poll_deadline, after_id, masterCloses,
                   slaveCloses, fdMisuse, sent, notifyOk, consumed,
                   checksInWindow, prompts, outcome, result, envVars, clsVars,
                   botVars>>

NextMon ==
    \/ Writer
    \/ MonEvent
    \/ MonHash
    \/ MonUpload
    \/ MonNotify

SpecMon == InitMon /\ [][NextMon]_vars


\* ------------------------------------------------------------------------
\* Vocabulary of the properties
\* ------------------------------------------------------------------------

Last(q) == q[Len(q)]

Range(q) == {q[i] : i \in 1..Len(q)}

\* needle occurs in hay as a contiguous piece
Contains(hay, needle) ==
    \E i \in 0..(Len(hay) - Len(needle)) :
        SubSeq(hay, i + 1, i + Len(needle)) = needle

\* the id of the last reply consumed, or d when none was
LastConsumedOr(d) == IF consumed = <<>> THEN d ELSE Last(consumed)

\* the prompt text a prompt notification carries
PromptTextOf(n) == SubSeq(n.text, Len(KiroAsks) + 1, Len(n.text))

\* the session has returned, by this way out
Ended(how) == pc = "done" /\ outcome = how

C2_RepliesAboveWatermarkInOrder ==
    /\ \A i \in 1..Len(consumed) :
          consumed[i] \in replyIds /\ consumed[i] > in_update_id
    /\ \A i \in 1..(Len(consumed) - 1) : consumed[i] < consumed[i + 1]
    /\ \A r \in replyIds :
          (in_update_id < r /\ r < LastConsumedOr(in_update_id))
              => r \in Range(consumed)
    /\ last_update_id = LastConsumedOr(in_update_id)
    /\ pc = "write" =>
          /\ IsReply(updates[last_update_id])
          /\ reply = Strip(updates[last_update_id].text)

\* two replies were queued; two waits returned them one by one, in order
C2_Witness ==
    /\ Len(consumed) = 2
    /\ consumed[1] + 1 = consumed[2]
    /\ pc = "write"

\* ------------------------------------------------------------------------
\* C3.  Silence-window latch: between two arrivals of bytes the pending buffer
\* is classified at most once; the checked-flag is set only by a
\* classification of the window under way, and it is false (and the window
\* new) whenever bytes have just arrived.
\* ------------------------------------------------------------------------
C3_SilenceLatch ==
    /\ checksInWindow <= 1
    /\ silence_checked => checksInWindow = 1
    /\ (pc = "drain" /\ got_data) => (~silence_checked /\ checksInWindow = 0)

\* a later tick of a window that was classified and found no prompt: the
\* silence lasts, the buffer is not empty, and only the latch holds the check
C3_Witness ==
    /\ pc = "check"
    /\ silence_checked /\ checksInWindow = 1
    /\ ~got_data /\ pending_buf # <<>>
    /\ now - last_data_ts > SILENCE_THRESHOLD
    /\ prompts = 0

\* ------------------------------------------------------------------------
\* C4.  Reply-wait timeout: when the wait for a notified prompt runs out, the
\* session ends TimedOut: the step that ends the wait writes nothing to the
\* child and sends the timeout notification; at the return the child does not
\* run, the transcript contains the prompt text that was notified, and the
\* watermark is the one held before the wait.
\* ------------------------------------------------------------------------
C4_ReplyTimeout ==
    /\ [](Ended("TimedOut") =>
            /\ Len(sent) >= 2
            /\ Last(sent).kind = "timeout"
            /\ sent[Len(sent) - 1].kind = "prompt"
            /\ Contains(result.output, PromptTextOf(sent[Len(sent) - 1]))
            /\ ~alive
            /\ result.last_update_id = LastConsumedOr(in_update_id)
            /\ Len(childIn) = Len(consumed))
    /\ [][(pc = "poll_loop" /\ now >= poll_deadline /\ pc' # pc) =>
            /\ pc' = "finally" /\ outcome' = "TimedOut"
            /\ childIn' = childIn
            /\ last_update_id' = last_update_id]_vars

\* the wait ran out although messages had come in: none of them was a reply
C4_Witness ==
    /\ Ended("TimedOut")
    /\ Len(updates) > result.last_update_id
    /\ now > USER_REPLY_TIMEOUT

\* ------------------------------------------------------------------------
\* C5.  One prompt, answered: the child writes, pauses at a prompt, gets the
\* reply with id k, writes more and exits.  The returned transcript is every
\* chunk the child wrote, before and after the answer, in order (control
\* sequences removed); the returned watermark is k; the reply text and a
\* newline were written to the child.
\* ------------------------------------------------------------------------
C5_OnePromptEndToEnd ==
    (Ended("Completed") /\ prompts = 1 /\ Len(consumed) = 1) =>
        /\ result.output = strip_ansi(emitted)
        /\ result.last_update_id = consumed[1]
        /\ childIn = <<reply \o <<NL>>>>
        /\ Contains(result.output, PromptTextOf(sent[1]))

\* a completed line, a prompt, the answer, a completed line, the exit
C5_Witness ==
    /\ Ended("Completed") /\ prompts = 1 /\ Len(consumed) = 1
    /\ result.output = <<"o", "k", NL, "G", "o", "?", " ", "o", "k", NL>>
    /\ PromptTextOf(sent[1]) = <<"o", "k", NL, "G", "o", "?">>
    /\ childIn = <<<<"y", NL>>>>

\* ------------------------------------------------------------------------
\* C6.  The overall budget is said to hold in the reply wait as in the main
\* loop: no reply is written to the child once the overall deadline has
\* passed.  (The reply wait measures only its own USER_REPLY_TIMEOUT, so a
\* reply that comes after the overall deadline is still written.)
\* ------------------------------------------------------------------------
C6_NoReplyWrittenPastDeadline ==
    [][Len(childIn') > Len(childIn) => now < deadline]_vars

\* ------------------------------------------------------------------------
\* C7.  Launch failure: the call returns at once with one of the two textual
\* error results and the caller's watermark; nothing was notified, no reply
\* wait was made, the loop was never entered (no time passed, nothing was
\* read, no child ran), and both descriptors of the terminal were closed.
\* ------------------------------------------------------------------------
C7_LaunchFailure ==
    outcome = "LaunchFailed" =>
        /\ pc = "done"
        /\ result.output \in LaunchErrors
        /\ result.last_update_id = in_update_id
        /\ sent = <<>> /\ consumed = <<>> /\ prompts = 0
        /\ emitted = <<>> /\ full_output = <<>> /\ childIn = <<>>
        /\ ~alive /\ signals = <<>>
        /\ now = 0
        /\ masterCloses = 1 /\ slaveCloses = 1

\* the launch failed for a caller that came with a watermark above zero
C7_Witness ==
    /\ outcome = "LaunchFailed"
    /\ result.last_update_id = 1
    /\ result.output = "Error: kiro-cli not found on PATH."

\* ------------------------------------------------------------------------
\* C8.  A notification that fails changes nothing: after a failed prompt
\* notification the controller is in the reply wait, armed with the watermark
\* it held; after a failed timeout notification the child has been told to
\* terminate and the session is on its way out as TimedOut; and every session
\* that was launched returns the pair (transcript, watermark), the reply-wait
\* timeout included.
\* ------------------------------------------------------------------------
C8_FailedNotificationIgnored ==
    /\ ~notifyOk =>
          \/ /\ pc = "poll_loop"
             /\ Last(sent).kind = "prompt"
             /\ after_id = last_update_id
             /\ poll_deadline >= USER_REPLY_TIMEOUT
          \/ /\ pc = "finally" /\ outcome = "TimedOut"
             /\ Last(sent).kind = "timeout"
             /\ alive => (signals # <<>> /\ Last(signals) = "TERM")
    /\ (pc = "done" /\ outcome # "LaunchFailed") =>
          /\ outcome \in {"Completed", "TimedOut", "DeadlineExceeded", "WriteFailed"}
          /\ result = [output |-> strip_ansi(full_output),
                       last_update_id |-> last_update_id]

\* the prompt notification failed, and the wait went on to look at what came in
C8_Witness ==
    /\ ~notifyOk
    /\ pc = "poll_loop"
    /\ offset > after_id + 1

\* ------------------------------------------------------------------------
\* C9.  Release of resources: the child side of the terminal is closed in the
\* parent once, right after the launch; the parent side is closed once, on
\* the way out, whatever the way; nothing is read, written or selected on a
\* closed descriptor; at the return the child does not run.
\* ------------------------------------------------------------------------
C9_ResourcesReleasedOnce ==
    /\ ~fdMisuse
    /\ masterCloses <= 1 /\ slaveCloses <= 1
    /\ pc \notin {"start", "classify", "classified"} => slaveCloses = 1
    /\ pc \notin {"start", "classify", "classified", "done"} => masterCloses = 0
    /\ pc = "done" => (masterCloses = 1 /\ ~alive)

\* the deadline passed on a child that ignores SIGTERM: it took the kill
C9_Witness ==
    /\ Ended("DeadlineExceeded")
    /\ signals = <<"TERM", "KILL">>
    /\ now >= deadline + WAIT_GRACE

\* ------------------------------------------------------------------------
\* C10.  looksLikePrompt, rule by rule.  What the three rules say, written
\* from their wording over the text with control sequences removed:
\* ------------------------------------------------------------------------

LowerText(l) == [i \in 1..Len(l) |-> Lower(l[i])]

\* the last character of l that is not whitespace is c
TrailingChar(l, c) == LET t == RStrip(l) IN t # <<>> /\ t[Len(t)] = c

\* word, then whitespace, then something that is not whitespace
LeadIn(l, word) ==
    \E i \in 1..Len(l), n \in 1..Len(l) :
        /\ i + Len(word) + n <= Len(l)
        /\ SubSeq(LowerText(l), i, i + Len(word) - 1) = word
        /\ \A k \in 1..n : l[i + Len(word) - 1 + k] \in Whitespace
        /\ l[i + Len(word) + n] \notin Whitespace

RefPromptPattern(l) ==
    \/ TrailingChar(l, "?")
    \/ Contains(LowerText(l), <<"(", "y", "/", "n", ")">>)
    \/ Contains(LowerText(l), <<"(", "y", "|", "n", ")">>)
    \/ Contains(LowerText(l), <<"y", "e", "s", "/", "n", "o">>)
    \/ TrailingChar(l, ">")
    \/ \E w \in {<<"e","n","t","e","r">>, <<"c","h","o","o","s","e">>,
                 <<"p","l","e","a","s","e">>, <<"i","n","p","u","t">>} : LeadIn(l, w)
    \/ TrailingChar(l, ":")

\* the lines of t: the longest pieces without a newline
IsLine(t, i, j) ==
    /\ \A k \in i..j : t[k] # NL
    /\ i = 1 \/ t[i - 1] = NL
    /\ j = Len(t) \/ t[j + 1] = NL

RefLooksLikePrompt(text) ==
    LET t == strip_ansi(text)
    IN  IF \A k \in 1..Len(t) : t[k] \in Whitespace THEN FALSE
        ELSE IF ~(\E k \in 1..Len(t) :
                     t[k] = NL /\ \A r \in (k + 1)..Len(t) : t[r] = CR) THEN TRUE
        ELSE \E i \in 1..Len(t), j \in 1..Len(t) :
                /\ i <= j
                /\ IsLine(t, i, j)
                /\ \E k \in i..j : t[k] \notin Whitespace
                /\ \A k \in (j + 1)..Len(t) : t[k] \in Whitespace
                /\ RefPromptPattern(SubSeq(t, i, j))

\* C10.  The verdict of _looks_like_prompt is the verdict of the three rules
\* taken in order: blank text is no prompt, other text that does not end a
\* line is a prompt, and text that ends a line is a prompt exactly when its
\* last non-blank line matches a prompt pattern; so "Continue? (y/n) ",
\* "Please enter your name: " and "> " are prompts and "Build succeeded.\n"
\* is none.
C10_LooksLikePromptRules ==
    pc = "classified" =>
        /\ cls_verdict = RefLooksLikePrompt(cls_text)
        /\ cls_text \in {ContinueYN, PleaseEnterName, BarePrompt} => cls_verdict
        /\ cls_text = BuildSucceeded => ~cls_verdict

\* whitespace that does not end a line: the first rule decides, not the second
C10_Witness ==
    /\ pc = "classified"
    /\ cls_text = <<" ", CR>>
    /\ ~cls_verdict

\* ------------------------------------------------------------------------
\* C11.  The watermark of the session is the id of the last reply consumed:
\* no step lowers it, a step changes it only by consuming a reply (whose id it
\* becomes), and the watermark returned by a launched session is at least the
\* caller's and is the id of the last reply consumed, or the caller's when
\* none was.
\* ------------------------------------------------------------------------
C11_WatermarkMonotone ==
    /\ [][/\ last_update_id' >= last_update_id
          /\ last_update_id' # last_update_id =>
                consumed' = Append(consumed, last_update_id')
          /\ consumed' # consumed =>
                (Len(consumed') = Len(consumed) + 1
                    /\ last_update_id' = Last(consumed'))]_vars
    /\ []((pc = "done" /\ outcome # "LaunchFailed") =>
            /\ result.last_update_id >= in_update_id
            /\ result.last_update_id = LastConsumedOr(in_update_id)
            /\ \A i \in 1..Len(consumed) : consumed[i] <= result.last_update_id)

\* a reply was consumed, the next prompt got none: the session returns the id
\* of the reply, above the caller's watermark
C11_Witness ==
    /\ Ended("TimedOut")
    /\ Len(consumed) = 1
    /\ result.last_update_id = consumed[1]
    /\ result.last_update_id > in_update_id

\* ------------------------------------------------------------------------
\* C12.  Only an update of the expected conversation whose text is not blank
\* is returned as a reply and written to the child; updates of other
\* conversations, without a message or with blank text are passed over, and
\* passing them over does not move the watermark.
\* ------------------------------------------------------------------------
C12_OnlyConversationReplies ==
    /\ pc = "write" =>
          /\ updates[last_update_id].chat = CHAT_ID
          /\ \E k \in 1..Len(updates[last_update_id].text) :
                updates[last_update_id].text[k] \notin Whitespace
          /\ reply # <<>>
          /\ Contains(updates[last_update_id].text, reply)
    /\ \A i \in 1..Len(childIn) : childIn[i] = <<"y", NL>>
    /\ consumed = <<>> => last_update_id = in_update_id
    /\ \A i \in (LastConsumedOr(in_update_id) + 1)..Len(updates) :
          last_update_id < i

\* the first update was passed over and the second returned as the reply
C12_Witness ==
    /\ pc = "write"
    /\ in_update_id = 0
    /\ consumed = <<2>>
    /\ updates[1].chat # CHAT_ID

\* ------------------------------------------------------------------------
\* C13, C14: the two buffers
\* ------------------------------------------------------------------------

IsPrefix(p, q) == Len(p) <= Len(q) /\ SubSeq(q, 1, Len(p)) = p

IsSuffix(p, q) == Len(p) <= Len(q) /\ SubSeq(q, Len(q) - Len(p) + 1, Len(q)) = p

\* C13.  The pending buffer is always a suffix of the transcript.  It changes
\* in two ways only: the chunk read from the child is appended to it (and to
\* the transcript), or it is cleared by the step that writes a reply to the
\* child; the step that writes a reply always clears it, and no other step
\* (a classification that finds no prompt, the timeout of the reply wait, a
\* write that fails) empties it.
C13_PendingIsSuffix ==
    /\ [](IsSuffix(pending_buf, full_output))
    /\ [][/\ pending_buf' # pending_buf =>
                \/ /\ Len(childIn') = Len(childIn) + 1
                   /\ pending_buf' = <<>>
                \/ /\ childIn' = childIn
                   /\ IsPrefix(pending_buf, pending_buf')
                   /\ Len(pending_buf') - Len(pending_buf)
                         = Len(full_output') - Len(full_output)
          /\ Len(childIn') > Len(childIn) => pending_buf' = <<>>]_vars

\* right after a reply is written: the buffer is empty, the transcript is not
C13_Witness ==
    /\ pc = "sleep"
    /\ Len(childIn) = 1
    /\ pending_buf = <<>>
    /\ full_output # <<>>
    /\ ~silence_checked

\* C14.  The transcript is only appended to: over every step the transcript
\* before is a prefix of the transcript after; it grows only where the
\* controller reads the child's output, by what was read; so it holds the
\* child's output and nothing else (no reply text, no notification text).
C14_TranscriptAppendOnly ==
    /\ [][/\ IsPrefix(full_output, full_output')
          /\ full_output' # full_output =>
                /\ pc = "drain"
                /\ full_output' = full_output \o ptybuf
                /\ childIn' = childIn /\ sent' = sent]_vars
    /\ [](IsPrefix(full_output, emitted))

\* output read after a prompt was answered: the transcript holds what came
\* before the answer and what came after it
C14_Witness ==
    /\ pc = "drain" /\ got_data
    /\ Len(childIn) = 1 /\ Len(sent) = 1
    /\ pending_buf # <<>>
    /\ Len(full_output) > Len(pending_buf)
    /\ full_output = emitted

\* ------------------------------------------------------------------------
\* C15.  The pending buffer is classified only in a state where the silence
\* has lasted the threshold, the buffer is not empty and the checked-flag is
\* not set, and the step that classifies sets the flag.  So a buffer that a
\* reply write has just cleared is not classified before the child writes
\* again, and a prompt is on its way to the operator only with the flag set,
\* a buffer that is not empty and the threshold passed.
\* ------------------------------------------------------------------------
C15_CheckPreconditions ==
    /\ [][checksInWindow' > checksInWindow =>
            /\ now - last_data_ts >= SILENCE_THRESHOLD
            /\ pending_buf # <<>>
            /\ ~silence_checked
            /\ silence_checked'
            /\ pending_buf' = pending_buf]_vars
    /\ [](pc = "notify" =>
            /\ silence_checked
            /\ pending_buf # <<>>
            /\ now - last_data_ts >= SILENCE_THRESHOLD)

\* a prompt was answered, the child wrote again and fell silent: the second
\* window is classified
C15_Witness ==
    /\ pc = "notify"
    /\ Len(childIn) = 1
    /\ prompts = 2
    /\ silence_checked

\* ------------------------------------------------------------------------
\* C16.  One prompt at a time.  From the prompt notification to the end of its
\* reply wait the controller reads no child output, classifies nothing and
\* sends no other prompt notification (the wait ends with the reply or with
\* the timeout notification); in the wait exactly one prompt notification is
\* unanswered, and every reply got, and so every reply written, has its own
\* prompt notification before it.
\* ------------------------------------------------------------------------

\* the prompt notifications sent so far
PromptsSent == Cardinality({i \in 1..Len(sent) : sent[i].kind = "prompt"})

C16_OnePromptAtATime ==
    /\ [][pc = "poll_loop" =>
            /\ UNCHANGED <<full_output, pending_buf, ptybuf, checksInWindow,
                           prompts, silence_checked>>
            /\ pc' \in {"poll_loop", "write", "finally"}
            /\ sent' # sent =>
                  /\ pc' = "finally"
                  /\ sent' = Append(sent, Notification("timeout", NoReplyText))]_vars
    /\ [](/\ pc = "poll_loop" => PromptsSent = Len(consumed) + 1
          /\ pc = "write" => PromptsSent = Len(consumed)
          /\ pc \in {"poll_loop", "write"} => Last(sent).kind = "prompt"
          /\ Len(childIn) <= Len(consumed)
          /\ Len(consumed) <= PromptsSent
          /\ PromptsSent <= Len(consumed) + 1
          /\ PromptsSent = IF pc = "notify" THEN prompts - 1 ELSE prompts)

\* the wait for the answer to the second prompt, after a failed getUpdates
C16_Witness ==
    /\ pc = "poll_loop"
    /\ Len(childIn) = 1
    /\ PromptsSent = 2
    /\ pollErrors = 1

\* ------------------------------------------------------------------------
\* C17.  The step that writes to the child is the step after a reply was got:
\* it writes the text of that reply (the update's text without the blanks
\* around it) and one newline, as one write; after it the pending buffer is
\* empty, the last-activity time is the time of the write and the
\* checked-flag is false.  The n-th write is of the n-th reply consumed, so no
\* reply is written twice and the writes are in the order of the ids.
\* ------------------------------------------------------------------------
C17_ReplyWrite ==
    /\ [][childIn' # childIn =>
            /\ pc = "write"
            /\ Len(childIn') = Len(childIn) + 1
            /\ SubSeq(childIn', 1, Len(childIn)) = childIn
            /\ Last(childIn') = Strip(updates[Last(consumed)].text) \o <<NL>>
            /\ Len(childIn') = Len(consumed)
            /\ pending_buf' = <<>>
            /\ last_data_ts' = now'
            /\ ~silence_checked'
            /\ pc' = "sleep"]_vars
    /\ [](/\ Len(childIn) <= Len(consumed)
          /\ \A i \in 1..(Len(consumed) - 1) : consumed[i] < consumed[i + 1]
          /\ \A i \in 1..Len(childIn) :
                /\ childIn[i] # <<NL>>
                /\ Last(childIn[i]) = NL
                /\ NL \notin Range(SubSeq(childIn[i], 1, Len(childIn[i]) - 1)))

\* the second reply has been written: two writes for two replies
C17_Witness ==
    /\ pc = "sleep"
    /\ consumed = <<1, 2>>
    /\ childIn = <<<<"y", NL>>, <<"y", NL>>>>
    /\ pending_buf = <<>>
    /\ last_data_ts = now

\* ------------------------------------------------------------------------
\* C18.  A prompt notification is sent exactly when a silence check has
\* classified the pending buffer as a prompt.  It carries the text of the
\* pending buffer of that moment (control sequences and the blanks around it
\* removed, after the heading "Kiro asks:"): the output read since the last
\* reply was written, which is the whole transcript only before the first
\* reply.  A classification that finds no prompt sends nothing, starts no
\* wait, and leaves transcript, pending buffer and watermark as they were.
\* ------------------------------------------------------------------------
C18_PromptNotification ==
    /\ [][/\ (sent' # sent /\ Last(sent').kind = "prompt") =>
                /\ pc = "notify"
                /\ RefLooksLikePrompt(pending_buf)
                /\ sent' = Append(sent,
                      [kind |-> "prompt", chat |-> CHAT_ID,
                       text |-> KiroAsks \o Strip(strip_ansi(pending_buf))])
                /\ IF childIn = <<>> THEN pending_buf = full_output
                   ELSE Len(pending_buf) < Len(full_output)
                /\ pc' = "poll_loop"
          /\ checksInWindow' > checksInWindow =>
                IF RefLooksLikePrompt(pending_buf)
                THEN pc' = "notify" /\ sent' = sent
                ELSE /\ pc' = "sleep"
                     /\ UNCHANGED <<sent, full_output, pending_buf,
                                    last_update_id, consumed, offset, updates>>
          /\ pc = "notify" =>
                (sent' # sent /\ Last(sent').kind = "prompt")]_vars
    /\ [](pc = "notify" => (silence_checked /\ RefLooksLikePrompt(pending_buf)))

\* the notification of the second prompt carries the second prompt alone
C18_Witness ==
    /\ pc = "poll_loop"
    /\ Len(childIn) = 1
    /\ Last(sent).text = KiroAsks \o <<"G", "o", "?">>
    /\ Len(full_output) > Len(pending_buf)
    /\ pending_buf = <<"G", "o", "?", " ">>

C20_TerminalStatesFinal ==
    /\ [](outcome # "none" <=> pc \in {"finally", "done"})
    /\ [][(pc \in {"finally", "done"}) =>
            /\ pc' \in {"finally", "done"}
            /\ UNCHANGED <<full_output, pending_buf, ptybuf, childIn, sent,
                           consumed, last_update_id, checksInWindow, prompts,
                           outcome, updates, offset, silence_checked>>]_vars
    /\ [][pc = "finally" =>
            /\ pc' = "done"
            /\ masterCloses' = masterCloses + 1
            /\ result' = [output |-> strip_ansi(full_output),
                          last_update_id |-> last_update_id]]_vars

\* the session returned on the deadline with output of the child left unread
C20_Witness ==
    /\ Ended("DeadlineExceeded")
    /\ ptybuf # <<>>
    /\ masterCloses = 1
    /\ result.output = strip_ansi(full_output)

\* ------------------------------------------------------------------------
\* C21.  The order of the escalation.  The cleanup sends nothing to a child
\* that has exited; a child that runs is sent terminate first; kill is sent
\* only after terminate, and exactly when the child was waited on for the
\* whole grace period without exiting; afterwards the child does not run.
\* ------------------------------------------------------------------------
C21_EscalationOrder ==
    /\ [][pc = "finally" =>
            LET added == SubSeq(signals', Len(signals) + 1, Len(signals'))
            IN  /\ IsPrefix(signals, signals')
                /\ added \in {<<>>, <<"TERM">>, <<"TERM", "KILL">>}
                /\ ~alive => (added = <<>> /\ now' = now)
                /\ added = <<"TERM", "KILL">> <=>
                      (alive /\ now' = now + WAIT_GRACE)
                /\ ~alive']_vars
    /\ [](\A i \in 1..Len(signals) :
            signals[i] = "KILL" =>
                (i > 1 /\ signals[i - 1] = "TERM" /\ i = Len(signals)))

\* the reply wait ran out and the child ignored both terminate signals
C21_Witness ==
    /\ Ended("TimedOut")
    /\ signals = <<"TERM", "TERM", "KILL">>

C23_ModeAndDispatch ==
    /\ [](mode \in {"chat", "code"})
    /\ [](outbox = <<>> => mode = "chat")
    /\ [][mode' # mode =>
            /\ pc = "bot_handle"
            /\ HasText(inbox[update_id])
            /\ \/ inbox[update_id].message.text = "/chat" /\ mode' = "chat"
               \/ inbox[update_id].message.text = "/code" /\ mode' = "code"]_vars
    /\ [][outbox' # outbox =>
            LET user_text == inbox[update_id].message.text
            IN  /\ user_text = "/chat" => mode' = "chat"
                /\ user_text = "/code" => mode' = "code"
                /\ user_text \notin {"/chat", "/code"} => mode' = mode
                /\ dispatched' # dispatched
                      <=> user_text \notin {"/chat", "/code", "/help"}]_vars
    /\ [][dispatched' # dispatched =>
            /\ Len(dispatched') = Len(dispatched) + 1
            /\ SubSeq(dispatched', 1, Len(dispatched)) = dispatched
            /\ Last(dispatched').update_id = update_id
            /\ Last(dispatched').prompt = inbox[update_id].message.text
            /\ Last(dispatched').backend = "bedrock" <=> mode = "chat"
            /\ Last(dispatched').backend = "kiro" <=> mode = "code"
            /\ mode' = mode]_vars
    /\ [](\A i \in 1..Len(dispatched) :
            /\ dispatched[i].prompt \notin {"/chat", "/code", "/help"}
            /\ HasText(inbox[dispatched[i].update_id])
            /\ inbox[dispatched[i].update_id].message.text = dispatched[i].prompt)

\* after /code and /help, a text that begins like a command went to Kiro
C23_Witness ==
    /\ mode = "code"
    /\ Len(outbox) = 3
    /\ outbox[2].reply.text = "Available commands"
    /\ dispatched = <<[update_id |-> 3, backend |-> "kiro", prompt |-> "/chat now"]>>

\* ------------------------------------------------------------------------
\* C24.  The offset of the bot never decreases; while an update is handled
\* the offset is already one above its id; the loop body is entered for
\* every update at most once, in the order of the ids, also after the
\* handling of an update raised; and at most one reply is sent for an
\* update, and only for an update that carries a text.
\* ------------------------------------------------------------------------
C24_OffsetAndAtMostOnce ==
    /\ [][bot_offset' >= bot_offset]_vars
    /\ [][handled' # handled =>
            /\ handled' = Append(handled, update_id')
            /\ bot_offset' = update_id' + 1
            /\ outbox' = outbox]_vars
    /\ [](pc = "bot_handle" => bot_offset = update_id + 1)
    /\ [](\A i, j \in 1..Len(handled) : i < j => handled[i] < handled[j])
    /\ [](\A i, j \in 1..Len(outbox) :
            i < j => outbox[i].update_id < outbox[j].update_id)
    /\ [](\A i \in 1..Len(outbox) :
            /\ outbox[i].update_id \in Range(handled)
            /\ HasText(inbox[outbox[i].update_id]))
    /\ [](failed \subseteq Range(handled))

\* the handling of the first two updates raised, before and after the
\* reply, and the third update was handled after them
C24_Witness ==
    /\ failed = {1, 2}
    /\ handled = <<1, 2, 3>>
    /\ Len(outbox) = 2
    /\ outbox[1].update_id = 2
    /\ outbox[2].update_id = 3

\* the uploads of one path, in order
UploadsOf(path) == SelectSeq(uploads, LAMBDA u : u.path = path)

\* ------------------------------------------------------------------------
\* C25.  The de-duplication of the folder monitor.  An event that finds the
\* file with the hash recorded for its path (when the handler, with nothing
\* written meanwhile, reads the file) ends with no upload, no
\* notification and no change of the record; the handler goes on to upload
\* only with a hash that differs from the recorded one, and records it
\* before the upload; so of two successive uploads of a path, failed or
\* not, the hashes differ; a notification is sent only right after a
\* successful upload of the same version and with a base url that is not
\* empty.
\* ------------------------------------------------------------------------
C25_Deduplication ==
    /\ [][(/\ pc = "mon_sleep"
           /\ nEvents' = nEvents
           /\ files[src_path] # Absent
           /\ SeenGet(seen, src_path) = file_hash(files[src_path])) =>
            /\ pc' = "mon_idle"
            /\ uploads' = uploads
            /\ notes' = notes
            /\ seen' = seen]_vars
    /\ [][(pc = "mon_sleep" /\ pc' = "mon_upload") =>
            /\ SeenGet(seen, src_path) # file_hash(files[src_path])
            /\ SeenGet(seen', src_path) = file_hash(files[src_path])
            /\ current_hash' = file_hash(files[src_path])
            /\ uploads' = uploads]_vars
    /\ [][uploads' # uploads =>
            /\ pc = "mon_upload"
            /\ Len(uploads') = Len(uploads) + 1
            /\ SubSeq(uploads', 1, Len(uploads)) = uploads
            /\ Last(uploads').path = src_path
            /\ Last(uploads').hash = current_hash
            /\ SeenGet(seen, src_path) = current_hash
            /\ notes' = notes]_vars
    /\ [][notes' # notes =>
            /\ pc = "mon_notify"
            /\ Len(notes') = Len(notes) + 1
            /\ cf_base # <<>>
            /\ uploads # <<>>
            /\ Last(uploads) = [path |-> src_path, hash |-> current_hash,
                                ok |-> TRUE]
            /\ Last(notes').path = src_path
            /\ Last(notes').hash = current_hash]_vars
    /\ [](\A path \in MonPaths :
            \A i \in 1..(Len(UploadsOf(path)) - 1) :
                UploadsOf(path)[i].hash # UploadsOf(path)[i + 1].hash)
    /\ [](Len(notes) <= Len(SelectSeq(uploads, LAMBDA u : u.ok)))
    /\ [](\A i \in 1..Len(uploads) : ~should_skip(uploads[i].path))

\* an upload failed, the file was written again with the same content, and
\* the event of that was dropped: the one upload stays the only one
C25_Witness ==
    /\ pc = "mon_idle"
    /\ Len(uploads) = 1
    /\ ~uploads[1].ok
    /\ dropped = <<[path |-> uploads[1].path, hash |-> uploads[1].hash]>>
    /\ notes = <<>>
    /\ cf_base # <<>>

====
